---------------------------- MODULE Spec2Model ----------------------------
(***************************************************************************)
(* Model of the insights engine (app/services/insights_service.py) and of  *)
(* the request handler that calls it (app/api/insights.py).                *)
(*                                                                         *)
(* Amounts are positive integers (currency units).  Every real-valued      *)
(* result of the engine (average, percentage, rate, ...) is carried as an  *)
(* exact fraction [num, den]; comparisons are done by cross-multiplying.   *)
(* Floating-point rounding is not modelled.  A date is a number of hours   *)
(* since an epoch.  Text fields that only format numbers already carried   *)
(* in the same record (reason strings) are not carried.                    *)
(***************************************************************************)
EXTENDS Integers, Sequences, FiniteSets

(***************************************************************************)
(* Bounds of the model.                                                    *)
(***************************************************************************)
\* longest request built freely from the pool of transaction kinds
MaxLen == 3
\* a bulk request holds at most AnomalyMinSamples + MaxExtra expenses
MaxExtra == 2
\* number of request-handling tasks
NumThreads == 2
\* a request of frequent purchases spreads them over at most MaxFrequent
\* categories
MaxFrequent == 3
\* most transactions a user has stored in the database
MaxStored == 2
MaxCurrentCents == 24
MaxOtherCents == 125

(***************************************************************************)
(* Program constants.                                                      *)
(***************************************************************************)
\* _detect_anomalies: "if len(df) < 10"
AnomalyMinSamples == 10
\* IsolationForest(contamination=0.1): the flagged share, in percent
ContaminationPct == 10
\* _identify_savings_opportunities: high_priority[:3]
MaxReduce == 3
\* _identify_savings_opportunities: opportunities[:5]
MaxOpportunities == 5
\* _identify_savings_opportunities: pattern.transactionCount > 20
FrequentCount == 20
\* _identify_savings_opportunities: pattern.averageAmount < 10
SmallAverage == 10
\* analyze_transactions: projected_monthly = avg_daily_spending * 30
ProjectionDays == 30

Threads == 1..NumThreads
UserIds == {"u1", "u2"}

\* Transaction.type is Optional[str] = None: NoType is the value None
NoType == "NONE"
\* Transaction.id is Optional[str] = None: NoId is the value None
NoId == 0

TransactionCategory ==
    {"food", "transport", "entertainment", "utilities", "healthcare",
     "shopping", "other"}

(***************************************************************************)
(* Fractions.                                                              *)
(***************************************************************************)
Frac(n, d) == [num |-> n, den |-> d]
\* float('nan'): the mean of an empty selection
NaN == [num |-> 0, den |-> 0]
Abs(x) == IF x < 0 THEN -x ELSE x
Max(a, b) == IF a >= b THEN a ELSE b
Min(a, b) == IF a <= b THEN a ELSE b

RECURSIVE SumSeq(_)
SumSeq(s) == IF s = <<>> THEN 0 ELSE Head(s) + SumSeq(Tail(s))

Amounts(rows) == [i \in 1..Len(rows) |-> rows[i].amount]

\* list.sort(key=...): a stable sort of s, ascending in the keys, keys[i]
\* being the key of s[i]
StableSort(s, keys) ==
    LET n == Len(s)
        rank(i) == Cardinality({j \in 1..n : keys[j] < keys[i]})
                   + Cardinality({j \in 1..i : keys[j] = keys[i]})
    IN  [p \in 1..n |-> s[CHOOSE i \in 1..n : rank(i) = p]]

(***************************************************************************)
(* _transactions_to_dataframe.  A transaction is a record                  *)
(*   [id, type, amount, category, date];  description and the owner key    *)
(* are not read by the analytics.                                          *)
(***************************************************************************)
\* getattr(t, 'type', 'EXPENSE'): Transaction declares the field type with
\* default None, so the attribute always exists and the default of getattr
\* is never taken; an absent type reaches the table as None.
TxType(t) == t.type

TransactionsToDataframe(transactions) ==
    [i \in 1..Len(transactions) |->
        [id       |-> transactions[i].id,
         type     |-> TxType(transactions[i]),
         amount   |-> transactions[i].amount,
         category |-> transactions[i].category,
         date     |-> transactions[i].date]]

\* df[df['type'] == 'EXPENSE']
IsExpenseRow(r) == r.type = "EXPENSE"
ExpenseDf(df) == SelectSeq(df, IsExpenseRow)
IsIncomeRow(r) == r.type = "INCOME"
IncomeDf(df) == SelectSeq(df, IsIncomeRow)

\* df[df['category'] == category]
CategoryRows(df, category) ==
    SelectSeq(df, LAMBDA r : r.category = category)

\* df['category'].unique(): the categories in order of first appearance
RECURSIVE UniqueFrom(_, _)
UniqueFrom(rows, seen) ==
    IF rows = <<>> THEN <<>>
    ELSE IF Head(rows).category \in seen THEN UniqueFrom(Tail(rows), seen)
    ELSE <<Head(rows).category>>
         \o UniqueFrom(Tail(rows), seen \cup {Head(rows).category})
UniqueCategories(df) == UniqueFrom(df, {})

(***************************************************************************)
(* _analyze_spending_patterns                                              *)
(***************************************************************************)
\* mutant: the count taken over the whole table instead of the category
SpendingPatternOfTableCount(df, category, total) ==
    LET cat_data  == CategoryRows(df, category)
        cat_total == SumSeq(Amounts(cat_data))
        cat_count == Len(df)
    IN  [category         |-> category,
         totalAmount      |-> cat_total,
         transactionCount |-> cat_count,
         averageAmount    |-> Frac(cat_total, cat_count),
         percentage       |-> IF total > 0 THEN Frac(cat_total * 100, total)
                              ELSE Frac(0, 1)]

SpendingPatternOf(df, category, total) ==
    LET cat_data  == CategoryRows(df, category)
        cat_total == SumSeq(Amounts(cat_data))
        cat_count == Len(cat_data)
    IN  [category         |-> category,
         totalAmount      |-> cat_total,
         transactionCount |-> cat_count,
         averageAmount    |-> Frac(cat_total, cat_count),
         percentage       |-> IF total > 0 THEN Frac(cat_total * 100, total)
                              ELSE Frac(0, 1)]

\* mutant: sorted in ascending order and then reversed, which also reverses
\* the categories of equal totals
SortPatternsReversed(patterns) ==
    LET ascending == StableSort(patterns,
                         [i \in 1..Len(patterns) |-> patterns[i].totalAmount])
    IN  [i \in 1..Len(patterns) |-> ascending[Len(patterns) + 1 - i]]

\* patterns.sort(key=lambda x: x.totalAmount, reverse=True)
SortPatterns(patterns) ==
    StableSort(patterns,
               [i \in 1..Len(patterns) |-> 0 - patterns[i].totalAmount])

AnalyzeSpendingPatterns(df) ==
    LET total == SumSeq(Amounts(df))
        cats  == UniqueCategories(df)
    IN  SortPatterns([i \in 1..Len(cats) |-> SpendingPatternOf(df, cats[i], total)])

(***************************************************************************)
(* _generate_budget_recommendations                                        *)
(***************************************************************************)
\* budget_guidelines, in hundredths; .get(category, 0.05)
BudgetGuidelines(category) ==
    CASE category = "food"          -> 15
      [] category = "utilities"     -> 10
      [] category = "transport"     -> 10
      [] category = "healthcare"    -> 5
      [] category = "entertainment" -> 5
      [] category = "shopping"      -> 10
      [] category = "other"         -> 5
      [] OTHER                      -> 5

\* mutant: "high" already above 1.2 times the recommended amount
BudgetPriorityLowThreshold(current_spending, total_spending, g) ==
    IF current_spending * 1000 > total_spending * g * 12 THEN "high"
    ELSE IF current_spending * 1000 > total_spending * g * 10 THEN "medium"
    ELSE "low"

\* current_spending > recommended * 1.5 / * 1.2, recommended = total * g / 100
BudgetPriority(current_spending, total_spending, g) ==
    IF current_spending * 1000 > total_spending * g * 15 THEN "high"
    ELSE IF current_spending * 1000 > total_spending * g * 12 THEN "medium"
    ELSE "low"

BudgetRecommendationOf(pattern, total_spending) ==
    LET g == BudgetGuidelines(pattern.category)
    IN  [category          |-> pattern.category,
         recommendedAmount |-> Frac(total_spending * g, 100),
         currentSpending   |-> pattern.totalAmount,
         priority          |-> BudgetPriority(pattern.totalAmount, total_spending, g)]

GenerateBudgetRecommendations(df, patterns) ==
    LET total_spending == SumSeq(Amounts(df))
    IN  [i \in 1..Len(patterns) |->
            BudgetRecommendationOf(patterns[i], total_spending)]

(***************************************************************************)
(* _analyze_income_vs_expense                                              *)
(***************************************************************************)
\* mutant: strict comparisons at the two thresholds
SavingsStatusStrict(savings_rate) ==
    IF savings_rate.num > 20 * savings_rate.den THEN "healthy"
    ELSE IF savings_rate.num > 10 * savings_rate.den THEN "concerning"
    ELSE "critical"

SavingsStatus(savings_rate) ==
    IF savings_rate.num >= 20 * savings_rate.den THEN "healthy"
    ELSE IF savings_rate.num >= 10 * savings_rate.den THEN "concerning"
    ELSE "critical"

AnalyzeIncomeVsExpense(df) ==
    LET total_income  == SumSeq(Amounts(IncomeDf(df)))
        total_expense == SumSeq(Amounts(ExpenseDf(df)))
        net_balance   == total_income - total_expense
        savings_rate  == IF total_income > 0
                         THEN Frac(net_balance * 100, total_income)
                         ELSE Frac(0, 1)
    IN  [totalIncome  |-> total_income,
         totalExpense |-> total_expense,
         netBalance   |-> net_balance,
         savingsRate  |-> savings_rate,
         status       |-> SavingsStatus(savings_rate)]

(***************************************************************************)
(* _assess_category_health                                                 *)
(***************************************************************************)
\* recommended_pct; .get(category, 5)
RecommendedPct(category) ==
    CASE category = "food"          -> 15
      [] category = "utilities"     -> 10
      [] category = "transport"     -> 10
      [] category = "healthcare"    -> 5
      [] category = "entertainment" -> 5
      [] category = "shopping"      -> 10
      [] category = "other"         -> 5
      [] OTHER                      -> 5

\* mutant: the budget recommender's factor 1.2 used for the warning tier
HealthStatusBudgetFactor(current_pct, recommended) ==
    IF current_pct.num <= recommended * current_pct.den THEN "good"
    ELSE IF 10 * current_pct.num <= 12 * recommended * current_pct.den
         THEN "warning"
    ELSE "bad"

\* current_pct <= recommended; current_pct <= recommended * 1.5
HealthStatus(current_pct, recommended) ==
    IF current_pct.num <= recommended * current_pct.den THEN "good"
    ELSE IF 2 * current_pct.num <= 3 * recommended * current_pct.den
         THEN "warning"
    ELSE "bad"

\* the amount named by the recommendation text: totalAmount * 0.2 / * 0.3
CutAmount(status, totalAmount) ==
    IF status = "warning" THEN Frac(totalAmount * 2, 10)
    ELSE IF status = "bad" THEN Frac(totalAmount * 3, 10)
    ELSE Frac(0, 1)

CategoryHealthOf(pattern) ==
    LET status == HealthStatus(pattern.percentage,
                               RecommendedPct(pattern.category))
    IN  [category       |-> pattern.category,
         status         |-> status,
         spending       |-> pattern.totalAmount,
         recommendation |-> CutAmount(status, pattern.totalAmount)]

StatusOrder(status) ==
    CASE status = "bad" -> 0 [] status = "warning" -> 1 [] status = "good" -> 2

\* mutant: the list left in pattern order
SortHealthMissing(category_health) == category_health

\* category_health.sort(key=lambda x: status_order[x.status])
SortHealth(category_health) ==
    StableSort(category_health,
               [i \in 1..Len(category_health) |->
                   StatusOrder(category_health[i].status)])

AssessCategoryHealth(df, patterns) ==
    SortHealth([i \in 1..Len(patterns) |-> CategoryHealthOf(patterns[i])])

(***************************************************************************)
(* _identify_savings_opportunities                                         *)
(***************************************************************************)
Take(s, n) == SubSeq(s, 1, Min(n, Len(s)))

IsHighPriority(r) == r.priority = "high"
\* excess = rec.currentSpending - rec.recommendedAmount; if excess > 0
HasExcess(r) == r.currentSpending * r.recommendedAmount.den > r.recommendedAmount.num
ReduceEntry(r) ==
    [kind     |-> "Reduce",
     category |-> r.category,
     amount   |-> Frac(r.currentSpending * r.recommendedAmount.den
                       - r.recommendedAmount.num, r.recommendedAmount.den)]

\* mutant: a pattern of exactly 20 transactions counts as frequent
IsFrequentSmallFromTwenty(p) ==
    /\ p.transactionCount >= FrequentCount
    /\ p.averageAmount.num < SmallAverage * p.averageAmount.den

\* pattern.transactionCount > 20 and pattern.averageAmount < 10
IsFrequentSmall(p) ==
    /\ p.transactionCount > FrequentCount
    /\ p.averageAmount.num < SmallAverage * p.averageAmount.den
ConsolidateEntry(p) ==
    [kind     |-> "Consolidate",
     category |-> p.category,
     amount   |-> Frac(p.transactionCount * p.averageAmount.num * 3,
                       p.averageAmount.den * 10)]

WellBalanced == [kind |-> "WellBalanced", category |-> "", amount |-> Frac(0, 1)]
StartTracking == [kind |-> "StartTracking", category |-> "", amount |-> Frac(0, 1)]

\* mutant: the list is returned whole, without the cut to five entries
IdentifySavingsOpportunitiesWhole(patterns, recommendations) ==
    LET high_priority == SelectSeq(recommendations, IsHighPriority)
        top           == SelectSeq(Take(high_priority, MaxReduce), HasExcess)
        reduce        == [i \in 1..Len(top) |-> ReduceEntry(top[i])]
        small         == SelectSeq(patterns, IsFrequentSmall)
        consolidate   == [i \in 1..Len(small) |-> ConsolidateEntry(small[i])]
        opportunities == reduce \o consolidate
    IN  IF opportunities = <<>> THEN <<WellBalanced>> ELSE opportunities

IdentifySavingsOpportunities(patterns, recommendations) ==
    LET high_priority == SelectSeq(recommendations, IsHighPriority)
        top           == SelectSeq(Take(high_priority, MaxReduce), HasExcess)
        reduce        == [i \in 1..Len(top) |-> ReduceEntry(top[i])]
        small         == SelectSeq(patterns, IsFrequentSmall)
        consolidate   == [i \in 1..Len(small) |-> ConsolidateEntry(small[i])]
        opportunities == reduce \o consolidate
    IN  Take(IF opportunities = <<>> THEN <<WellBalanced>> ELSE opportunities,
             MaxOpportunities)

(***************************************************************************)
(* The outlier model, IsolationForest(contamination=0.1, random_state=42). *)
(* The forest itself is library code.  What the engine relies on is kept:  *)
(* fit() replaces the fitted state by one computed from the sample alone   *)
(* (the seed is fixed), score_samples() is a function of the fitted state  *)
(* and of the scored point, lower meaning more unusual, and predict()      *)
(* flags the points scoring below offset_, the contamination percentile of *)
(* the scores of the fitted sample.  The path-length score is abstracted   *)
(* by the negated total distance of the point to the fitted sample.        *)
(***************************************************************************)
Unfitted == [fitted |-> FALSE, sample |-> <<>>, offset |-> 0]

ForestScore(sample, x) ==
    0 - SumSeq([i \in 1..Len(sample) |-> Abs(x - sample[i])])

\* np.percentile(scores, 100 * contamination), linear interpolation, x 100
PercentileScaled(scores, q) ==
    LET sorted == StableSort(scores, scores)
        h      == (Len(scores) - 1) * q
        lo     == (h \div 100) + 1
        rem    == h % 100
    IN  IF rem = 0 THEN 100 * sorted[lo]
        ELSE 100 * sorted[lo] + rem * (sorted[lo + 1] - sorted[lo])

\* IsolationForest.fit(X)
Fit(features) ==
    [fitted |-> TRUE,
     sample |-> features,
     offset |-> PercentileScaled(
                    [i \in 1..Len(features) |-> ForestScore(features, features[i])],
                    ContaminationPct)]

\* IsolationForest.score_samples(X)
ScoreSamples(model, features) ==
    [i \in 1..Len(features) |-> ForestScore(model.sample, features[i])]

\* IsolationForest.predict(X): -1 for an outlier, 1 for an inlier
Predict(model, features) ==
    [i \in 1..Len(features) |->
        IF 100 * ForestScore(model.sample, features[i]) < model.offset
        THEN -1 ELSE 1]

(***************************************************************************)
(* _detect_anomalies                                                       *)
(***************************************************************************)
\* features = df[['amount']].values
Features(df) == Amounts(df)

\* transaction.id or f"tx_{idx}"
AnomalyId(transaction, idx) ==
    IF transaction.id # NoId THEN <<"id", transaction.id>> ELSE <<"tx", idx>>

\* transaction = transactions[idx], idx the 0-based position among the
\* rows of df: position idx + 1 of the list handed in
FlaggedTransaction(transactions, idx) == transactions[idx + 1]

\* df[df['category'] == transaction.category.value]['amount'].mean()
CategoryMean(df, category) ==
    LET rows == CategoryRows(df, category)
    IN  IF Len(rows) = 0 THEN NaN
        ELSE Frac(SumSeq(Amounts(rows)), Len(rows))

AnomalyOf(df, transactions, idx, score) ==
    LET transaction == FlaggedTransaction(transactions, idx)
        cat_avg     == CategoryMean(df, transaction.category)
    IN  [transactionId |-> AnomalyId(transaction, idx),
         amount        |-> transaction.amount,
         category      |-> transaction.category,
         date          |-> transaction.date,
         anomalyScore  |-> Abs(score),
         deviation     |-> IF cat_avg = NaN THEN NaN
                           ELSE Frac(Abs(transaction.amount * cat_avg.den
                                         - cat_avg.num), cat_avg.den)]

\* for idx, (pred, score) in enumerate(zip(predictions, scores)):
\*     if pred == -1: ...
BuildAnomalies(df, transactions, predictions, scores) ==
    LET n       == Min(Len(predictions), Len(scores))
        flagged == SelectSeq([i \in 1..n |-> i], LAMBDA i : predictions[i] = -1)
    IN  [k \in 1..Len(flagged) |->
            AnomalyOf(df, transactions, flagged[k] - 1, scores[flagged[k]])]

\* mutant: nine rows are enough to reach the detector
ReachesDetectorFromNine(df) == Len(df) >= AnomalyMinSamples - 1

\* if len(df) < 10: return []
ReachesDetector(df) == Len(df) >= AnomalyMinSamples

(***************************************************************************)
(* analyze_transactions and _empty_insights                                *)
(***************************************************************************)
\* mutant: the status a zero savings rate gets on the non-empty path
EmptyInsightsCritical(userId) ==
    [userId                   |-> userId,
     incomeVsExpense          |-> [totalIncome  |-> 0,
                                   totalExpense |-> 0,
                                   netBalance   |-> 0,
                                   savingsRate  |-> Frac(0, 1),
                                   status       |-> "critical"],
     spendingPatterns         |-> <<>>,
     categoryHealth           |-> <<>>,
     budgetRecommendations    |-> <<>>,
     anomalies                |-> <<>>,
     totalSpending            |-> 0,
     averageDailySpending     |-> Frac(0, 1),
     projectedMonthlySpending |-> Frac(0, 1),
     savingsOpportunities     |-> <<StartTracking>>]

EmptyInsights(userId) ==
    [userId                   |-> userId,
     incomeVsExpense          |-> [totalIncome  |-> 0,
                                   totalExpense |-> 0,
                                   netBalance   |-> 0,
                                   savingsRate  |-> Frac(0, 1),
                                   status       |-> "healthy"],
     spendingPatterns         |-> <<>>,
     categoryHealth           |-> <<>>,
     budgetRecommendations    |-> <<>>,
     anomalies                |-> <<>>,
     totalSpending            |-> 0,
     averageDailySpending     |-> Frac(0, 1),
     projectedMonthlySpending |-> Frac(0, 1),
     savingsOpportunities     |-> <<StartTracking>>]

MaxDate(df) == CHOOSE d \in {df[i].date : i \in 1..Len(df)} :
                   \A i \in 1..Len(df) : df[i].date <= d
MinDate(df) == CHOOSE d \in {df[i].date : i \in 1..Len(df)} :
                   \A i \in 1..Len(df) : df[i].date >= d
\* mutant: the range of dates of the expense rows alone
DateRangeDaysOfExpenses(df) ==
    IF ExpenseDf(df) = <<>> THEN 0
    ELSE (MaxDate(ExpenseDf(df)) - MinDate(ExpenseDf(df))) \div 24

\* (df['date'].max() - df['date'].min()).days: whole days, dates in hours
DateRangeDays(df) == (MaxDate(df) - MinDate(df)) \div 24

\* mutant: the list handed over keeps the transactions that carry an id
DetectorTransactionsWithId(transactions) ==
    SelectSeq(transactions, LAMBDA x : x.id # NoId)

\* the list handed to _detect_anomalies:
\* [t for t in transactions if hasattr(t, 'userId')], every transaction
DetectorTransactions(transactions) == transactions

\* transactions[idx] raises IndexError for a flagged row whose position is
\* past the end of the list handed in
AnomalyIndexRaises(transactions, predictions) ==
    \E i \in 1..Len(predictions) :
        predictions[i] = -1 /\ i > Len(transactions)

\* analyze_transactions for a non-empty list, given the anomalies found
BuildInsights(transactions, userId, anomalies) ==
    LET df                == TransactionsToDataframe(transactions)
        income_vs_expense == AnalyzeIncomeVsExpense(df)
        expense_df        == ExpenseDf(df)
        spending_patterns == AnalyzeSpendingPatterns(expense_df)
        category_health   == AssessCategoryHealth(expense_df, spending_patterns)
        budget_recommendations ==
            GenerateBudgetRecommendations(expense_df, spending_patterns)
        total_spending    == SumSeq(Amounts(expense_df))
        days              == Max(DateRangeDays(df), 1)
    IN  [userId                   |-> userId,
         incomeVsExpense          |-> income_vs_expense,
         spendingPatterns         |-> spending_patterns,
         categoryHealth           |-> category_health,
         budgetRecommendations    |-> budget_recommendations,
         anomalies                |-> anomalies,
         totalSpending            |-> total_spending,
         averageDailySpending     |-> Frac(total_spending, days),
         projectedMonthlySpending |-> Frac(total_spending * ProjectionDays, days),
         savingsOpportunities     |->
             IdentifySavingsOpportunities(spending_patterns,
                                          budget_recommendations)]

(***************************************************************************)
(* The requests the handlers receive.                                      *)
(***************************************************************************)
Tx(id, type, amount, category, date) ==
    [id |-> id, type |-> type, amount |-> amount, category |-> category,
     date |-> date]

\* the kinds of transaction a short request is built from
Pool ==
    { Tx(NoId, "EXPENSE", 4, "food", 0),
      Tx(NoId, "EXPENSE", 2, "other", 30),
      Tx(NoId, "EXPENSE", 30, "transport", 50),
      Tx(NoId, "INCOME", 40, "other", 100),
      Tx(NoId, NoType, 50, "food", 10) }

\* every list of at most MaxLen pool transactions, identified by position
ShortLists ==
    UNION { { [i \in 1..n |-> [f[i] EXCEPT !.id = i]] : f \in [1..n -> Pool] }
            : n \in 0..MaxLen }

\* a bulk list: n expenses, small food purchases except for the large
\* transport purchases at the positions in spikes, with one INCOME
\* transaction put in front of expense number incomeAt (0: no income), and
\* with ids given by position or absent
BulkExpense(k, spikes) ==
    IF k \in spikes THEN Tx(NoId, "EXPENSE", 30, "transport", 12 * k)
    ELSE Tx(NoId, "EXPENSE", 4, "food", 12 * k)

BulkList(n, spikes, incomeAt, withIds) ==
    LET expenses == [k \in 1..n |-> BulkExpense(k, spikes)]
        income   == Tx(NoId, "INCOME", 40, "other", 12 * incomeAt)
        all      == IF incomeAt = 0 THEN expenses
                    ELSE SubSeq(expenses, 1, incomeAt - 1) \o <<income>>
                         \o SubSeq(expenses, incomeAt, n)
    IN  [i \in 1..Len(all) |->
            [all[i] EXCEPT !.id = IF withIds THEN i ELSE NoId]]

BulkSizes == (AnomalyMinSamples - 1)..(AnomalyMinSamples + MaxExtra)

BulkLists ==
    UNION { { BulkList(n, spikes, incomeAt, withIds) :
                spikes \in {{}, {1}, {n}, {2, n}},
                incomeAt \in {0, 1, n},
                withIds \in BOOLEAN }
            : n \in BulkSizes }

\* a list of frequent purchases: behind one large shopping purchase (big) or
\* none, a run of n purchases of amount a for each of the first k categories
\* of FrequentCategories
FrequentCategories ==
    <<"entertainment", "healthcare", "other", "utilities", "transport">>

FrequentList(k, n, a, big) ==
    LET runs == [i \in 1..(k * n) |->
                    Tx(NoId, "EXPENSE", a,
                       FrequentCategories[((i - 1) \div n) + 1], i)]
    IN  IF big THEN <<Tx(NoId, "EXPENSE", 300, "shopping", 0)>> \o runs
        ELSE runs

\* runs on either side of 'transactionCount > 20' and of 'averageAmount < 10'
FrequentShapes ==
    { <<FrequentCount + 1, SmallAverage - 1>>,
      <<FrequentCount, SmallAverage - 1>>,
      <<FrequentCount + 1, SmallAverage>> }

FrequentLists ==
    { FrequentList(k, shape[1], shape[2], big) :
        k \in 1..MaxFrequent, shape \in FrequentShapes, big \in BOOLEAN }

Request(transactions, userId) ==
    [transactions |-> transactions, userId |-> userId]

Requests ==
    { Request(l, u) : l \in ShortLists, u \in UserIds }
    \cup { Request(l, "u1") : l \in BulkLists }

\* the requests of frequent purchases, with the empty request and the
\* requests of one transaction beside them
FrequentRequests ==
    { Request(l, "u1") :
        l \in FrequentLists \cup { <<>> }
              \cup { <<[x EXCEPT !.id = 1]>> : x \in Pool } }

\* the requests of the threaded specification
ThreadRequests ==
    { Request(l, "u1") :
        l \in { <<>>, <<Tx(1, "EXPENSE", 4, "food", 0)>> }
              \cup UNION { { BulkList(n, spikes, 0, TRUE) :
                                spikes \in {{1}, {2, n}} }
                            : n \in AnomalyMinSamples..(AnomalyMinSamples + 1) } }

(***************************************************************************)
(* get_user_insights: the stored transactions of a user and their         *)
(* conversion to the transactions of the engine.  A stored transaction is *)
(* a row [id, type, amount, category, date] of TransactionModel: its      *)
(* category is free text, its amount any number, its type INCOME or       *)
(* EXPENSE.                                                                *)
(***************************************************************************)
StoredCategories ==
    {"food", "Food", "FOOD", "transport", "Transport", "rent", "RENT",
     "Salary", "OTHER"}

\* str.lower() on the stored spellings
Lower(c) ==
    CASE c \in {"food", "Food", "FOOD"} -> "food"
      [] c \in {"transport", "Transport"} -> "transport"
      [] c \in {"rent", "RENT"} -> "rent"
      [] c = "Salary" -> "salary"
      [] c = "OTHER" -> "other"

\* mutant: the stored spelling is looked up as it is
ConvertCategoryAsStored(c) ==
    IF c \in TransactionCategory THEN c ELSE "other"

\* category = db_tx.category.lower()
\* if category not in [cat.value for cat in TransactionCategory]: "other"
ConvertCategory(c) ==
    LET category == Lower(c)
    IN  IF category \in TransactionCategory THEN category ELSE "other"

\* Transaction(...) raises for an amount that is not above zero
\* (Field(..., gt=0)); the handler logs the exception and goes on
ConversionFails(db_tx) == ~(db_tx.amount > 0)

\* tx = Transaction(id=db_tx.id, amount=db_tx.amount, category=...,
\*                  date=db_tx.date, ...); tx.type = db_tx.type.value
ConvertTransaction(db_tx) ==
    Tx(db_tx.id, db_tx.type, db_tx.amount, ConvertCategory(db_tx.category),
       db_tx.date)

\* the loop over db_transactions
ConvertTransactions(db_transactions) ==
    LET kept == SelectSeq(db_transactions, LAMBDA x : ~ConversionFails(x))
    IN  [i \in 1..Len(kept) |-> ConvertTransaction(kept[i])]

\* the response the handler builds itself when no transaction is stored or
\* none is converted
NoTransactionsInsights(user_id) ==
    [userId                   |-> user_id,
     incomeVsExpense          |-> [totalIncome  |-> 0,
                                   totalExpense |-> 0,
                                   netBalance   |-> 0,
                                   savingsRate  |-> Frac(0, 1),
                                   status       |-> "healthy"],
     spendingPatterns         |-> <<>>,
     categoryHealth           |-> <<>>,
     budgetRecommendations    |-> <<>>,
     anomalies                |-> <<>>,
     totalSpending            |-> 0,
     averageDailySpending     |-> Frac(0, 1),
     projectedMonthlySpending |-> Frac(0, 1),
     savingsOpportunities     |-> <<StartTracking>>]

\* the kinds of stored transaction
StoredPool ==
    { Tx(NoId, "EXPENSE", 4, "Food", 0),
      Tx(NoId, "EXPENSE", 30, "RENT", 30),
      Tx(NoId, "EXPENSE", 2, "transport", 50),
      Tx(NoId, "INCOME", 40, "Salary", 100),
      Tx(NoId, "EXPENSE", 0, "FOOD", 10),
      Tx(NoId, "INCOME", 0 - 5, "OTHER", 10) }

\* what the query finds: at most MaxStored rows, the primary key of a row
\* being its position
StoredLists ==
    UNION { { [i \in 1..n |-> [f[i] EXCEPT !.id = i]] : f \in [1..n -> StoredPool] }
            : n \in 0..MaxStored }

(***************************************************************************)
(* The floats of the program are IEEE 754 binary64 numbers.  A natural     *)
(* number of up to 120 bits is kept as 8 limbs of 15 bits, the least       *)
(* significant first; a positive binary64 number is a record [m, e] that   *)
(* stands for m * 2^e, with 2^52 <= m < 2^53.  Every operation is the      *)
(* exact one followed by rounding to the nearest number of that form, ties *)
(* to the even m.  Zero, subnormal numbers and overflow do not arise in    *)
(* the expressions modelled.                                               *)
(***************************************************************************)
Limbs == 1..8
LimbBase == 2^15

\* the element of a set of one element: in { e(v) : v \in {x} } the value
\* of x is computed once, however often e uses v
The(S) == CHOOSE v \in S : TRUE

BigOf(n) ==
    <<n % LimbBase, (n \div LimbBase) % LimbBase,
      (n \div LimbBase) \div LimbBase, 0, 0, 0, 0, 0>>

\* the limbs of a + b from limb i on, given the carry into limb i
RECURSIVE BigAddFrom(_, _, _, _)
BigAddFrom(a, b, i, carry) ==
    IF i > 8 THEN <<>>
    ELSE The({ <<s % LimbBase>> \o BigAddFrom(a, b, i + 1, s \div LimbBase)
               : s \in {a[i] + b[i] + carry} })

BigAdd(a, b) == The({ BigAddFrom(x, y, 1, 0) : x \in {a}, y \in {b} })

\* the limbs of a - b from limb i on, given the borrow out of limb i - 1
RECURSIVE BigSubFrom(_, _, _, _)
BigSubFrom(a, b, i, borrow) ==
    IF i > 8 THEN <<>>
    ELSE The({ <<(d + LimbBase) % LimbBase>>
               \o BigSubFrom(a, b, i + 1, IF d < 0 THEN 1 ELSE 0)
               : d \in {a[i] - b[i] - borrow} })

\* a - b for a >= b
BigSub(a, b) == The({ BigSubFrom(x, y, 1, 0) : x \in {a}, y \in {b} })

BigLess(a, b) ==
    \E x \in {a}, y \in {b} :
        \E i \in Limbs : x[i] < y[i] /\ \A j \in Limbs : j > i => x[j] = y[j]

\* limb i of a, 0 below the first limb
Limb(a, i) == IF i < 1 THEN 0 ELSE a[i]

\* limb i of a * 2^(15 * w + b), for b < 15
ShiftedLimb(a, w, b, i) ==
    ((Limb(a, i - w) * 2^b) % LimbBase) + (Limb(a, i - w - 1) \div 2^(15 - b))

\* a * 2^n
BigShift(a, n) ==
    The({ <<ShiftedLimb(x, w, b, 1), ShiftedLimb(x, w, b, 2),
            ShiftedLimb(x, w, b, 3), ShiftedLimb(x, w, b, 4),
            ShiftedLimb(x, w, b, 5), ShiftedLimb(x, w, b, 6),
            ShiftedLimb(x, w, b, 7), ShiftedLimb(x, w, b, 8)>>
          : x \in {a}, w \in {n \div 15}, b \in {n % 15} })

\* bit k of a, bit 0 the least significant
BigBit(a, k) == (a[(k \div 15) + 1] \div 2^(k % 15)) % 2

\* a * (bits lo..hi of b, in place)
RECURSIVE BigMulRange(_, _, _, _)
BigMulRange(a, b, hi, lo) ==
    IF hi = lo
    THEN IF BigBit(b, hi) = 1 THEN BigShift(a, hi) ELSE BigOf(0)
    ELSE BigAdd(BigMulRange(a, b, hi, (hi + lo + 1) \div 2),
                BigMulRange(a, b, ((hi + lo + 1) \div 2) - 1, lo))

\* a * b for b < 2^53
BigMul(a, b) == The({ BigMulRange(x, y, 52, 0) : x \in {a}, y \in {b} })

\* bits lo..hi of the quotient of p by q, for p < q * 2^(hi + 1), and the
\* remainder they leave
RECURSIVE BigDivRange(_, _, _, _)
BigDivRange(p, q, hi, lo) ==
    IF hi = lo
    THEN The({ IF BigLess(p, s) THEN [quot |-> BigOf(0), rem |-> p]
               ELSE [quot |-> BigShift(BigOf(1), hi), rem |-> BigSub(p, s)]
               : s \in {BigShift(q, hi)} })
    ELSE The({ The({ [quot |-> BigAdd(upper.quot, lower.quot),
                      rem  |-> lower.rem]
                     : lower \in {BigDivRange(upper.rem, q,
                                              ((hi + lo + 1) \div 2) - 1, lo)} })
               : upper \in {BigDivRange(p, q, hi, (hi + lo + 1) \div 2)} })

\* the number of bits of a > 0
BitLength(a) ==
    The({ 15 * (top - 1)
          + CHOOSE n \in 1..15 : 2^(n - 1) <= a[top] /\ a[top] < 2^n
          : top \in {CHOOSE i \in Limbs :
                         a[i] # 0 /\ \A j \in Limbs : j > i => a[j] = 0} })

\* p and q scaled by powers of two until 2^52 <= p / q < 2^53; the scaled
\* p / q is the p / q given times 2^(-e)
Normalize(p, q) ==
    The({ The({ IF BigLess(p1, BigShift(q1, 52))
                THEN [p |-> BigAdd(p1, p1), q |-> q1, e |-> 0 - k - 1]
                ELSE [p |-> p1, q |-> q1, e |-> 0 - k]
                : p1 \in {IF k > 0 THEN BigShift(p, k) ELSE p},
                  q1 \in {IF k < 0 THEN BigShift(q, 0 - k) ELSE q} })
          : k \in {52 - (BitLength(p) - BitLength(q))} })

\* the quotient d.quot of n.p by n.q rounded on the remainder d.rem
RoundQuotient(n, d) ==
    The({ IF BigLess(n.q, twice) \/ (twice = n.q /\ BigBit(d.quot, 0) = 1)
          THEN BigAdd(d.quot, BigOf(1))
          ELSE d.quot
          : twice \in {BigAdd(d.rem, d.rem)} })

\* the binary64 number nearest to p / q
Round(p, q) ==
    The({ The({ The({ IF m = BigShift(BigOf(1), 53)
                      THEN [m |-> BigShift(BigOf(1), 52), e |-> n.e + 1]
                      ELSE [m |-> m, e |-> n.e]
                      : m \in {RoundQuotient(n, d)} })
                : d \in {BigDivRange(n.p, n.q, 52, 0)} })
          : n \in {The({ Normalize(x, y) : x \in {p}, y \in {q} })} })

\* the float a decimal literal or a parsed number n / d denotes
Float(n, d) == Round(BigOf(n), BigOf(d))

FloatMul(a, b) ==
    The({ The({ [m |-> r.m, e |-> r.e + x.e + y.e]
                : r \in {Round(BigMul(x.m, y.m), BigOf(1))} })
          : x \in {a}, y \in {b} })

FloatDiv(a, b) ==
    The({ The({ [m |-> r.m, e |-> r.e + x.e - y.e]
                : r \in {Round(x.m, y.m)} })
          : x \in {a}, y \in {b} })

\* the exponent the smaller of x and y has
LowExponent(x, y) == IF x.e < y.e THEN x.e ELSE y.e

FloatAdd(a, b) ==
    The({ The({ [m |-> r.m, e |-> r.e + LowExponent(x, y)]
                : r \in {Round(BigAdd(BigShift(x.m, x.e - LowExponent(x, y)),
                                      BigShift(y.m, y.e - LowExponent(x, y))),
                               BigOf(1))} })
          : x \in {a}, y \in {b} })

FloatLess(a, b) ==
    \E x \in {a}, y \in {b} :
        BigLess(BigShift(x.m, x.e - LowExponent(x, y)),
                BigShift(y.m, y.e - LowExponent(x, y)))

\* a float that no step has computed yet
NoFloat == [m |-> BigOf(0), e |-> 0]

\* the float the request parser reads for an amount of so many cents
AmountOfCents(cents) == Float(cents, 100)

\* df['amount'].sum() over two rows
SumAmounts(first, second) == FloatAdd(first, second)

\* float((cat_total / total) * 100)
FloatPercentage(cat_total, total) ==
    FloatMul(FloatDiv(cat_total, total), Float(100, 1))

\* current_pct <= recommended; current_pct <= recommended * 1.5, on floats
FloatHealthStatus(current_pct, recommended) ==
    IF ~FloatLess(Float(recommended, 1), current_pct) THEN "good"
    ELSE IF ~FloatLess(FloatMul(Float(recommended, 1), Float(3, 2)), current_pct)
         THEN "warning"
    ELSE "bad"

\* recommended = total_spending * guideline_pct, the guideline a literal of
\* g hundredths
FloatRecommended(total_spending, g) == FloatMul(total_spending, Float(g, 100))

\* current_spending > recommended * 1.5; > recommended * 1.2, on floats
FloatBudgetPriority(current_spending, recommended) ==
    IF FloatLess(FloatMul(recommended, Float(3, 2)), current_spending)
    THEN "high"
    ELSE IF FloatLess(FloatMul(recommended, Float(12, 10)), current_spending)
         THEN "medium"
    ELSE "low"

\* the categories of the first row of a request of two expense rows whose
\* amounts are in cents; the second row is a shopping row
CentCategories == {"utilities", "food"}

\* the amounts of the two rows, in cents
CentPairs ==
    ((MaxCurrentCents - 6)..MaxCurrentCents)
        \X ((MaxOtherCents - 15)..MaxOtherCents)

\* the two comparisons for the first row's category, before any step
CentsRequest(category, cents) ==
    [stage       |-> "rows",
     category    |-> category,
     cents       |-> cents,
     cat_total   |-> AmountOfCents(cents[1]),
     other_total |-> AmountOfCents(cents[2]),
     total       |-> NoFloat,
     percentage  |-> NoFloat,
     status      |-> "",
     recommended |-> NoFloat,
     priority    |-> ""]

NoCents ==
    [stage       |-> "none",
     category    |-> "",
     cents       |-> <<0, 0>>,
     cat_total   |-> NoFloat,
     other_total |-> NoFloat,
     total       |-> NoFloat,
     percentage  |-> NoFloat,
     status      |-> "",
     recommended |-> NoFloat,
     priority    |-> ""]

(***************************************************************************)
(* State.                                                                  *)
(***************************************************************************)
VARIABLES
    detector,     \* insights_service.anomaly_detector, the shared model
    pc,           \* where each task is: idle, called, fitted, done, raised,
                  \* answered (by the handler, without a call of the engine)
    call,         \* the request each task is handling
    predictions,  \* the local 'predictions' of a task in _detect_anomalies
    response,     \* the response a task's call has returned
    prior,        \* history: the shared model as it was when the call came in
    fetched,      \* the local 'db_transactions' of a task in get_user_insights
    cents         \* the floats of one category's two guideline comparisons

vars == <<detector, pc, call, predictions, response, prior, fetched, cents>>

NoCall == Request(<<>>, "")
NoResponse == [userId |-> ""]

Init ==
    /\ detector = Unfitted
    /\ pc = [t \in Threads |-> "idle"]
    /\ call = [t \in Threads |-> NoCall]
    /\ predictions = [t \in Threads |-> <<>>]
    /\ response = [t \in Threads |-> NoResponse]
    /\ prior = [t \in Threads |-> Unfitted]
    /\ fetched = [t \in Threads |-> <<>>]
    /\ cents = NoCents

(***************************************************************************)
(* Operations.                                                             *)
(***************************************************************************)
\* a handler of app/api/insights.py is entered with a request of reqs
Receive(t, reqs) ==
    /\ pc[t] = "idle"
    /\ \E r \in reqs : call' = [call EXCEPT ![t] = r]
    /\ pc' = [pc EXCEPT ![t] = "called"]
    /\ prior' = [prior EXCEPT ![t] = detector]
    /\ UNCHANGED <<detector, predictions, response, fetched, cents>>

\* get_user_insights is entered for a user whose stored transactions are one
\* of lists: the handler answers by itself when nothing is stored or nothing
\* is converted, and calls the engine with the converted list otherwise
GetUserInsights(t, lists, user_id) ==
    /\ pc[t] = "idle"
    /\ \E db_transactions \in lists :
           LET transactions == ConvertTransactions(db_transactions)
           IN  /\ fetched' = [fetched EXCEPT ![t] = db_transactions]
               /\ IF db_transactions = <<>> \/ transactions = <<>>
                  THEN /\ response' = [response EXCEPT
                                          ![t] = NoTransactionsInsights(user_id)]
                       /\ pc' = [pc EXCEPT ![t] = "answered"]
                       /\ UNCHANGED call
                  ELSE /\ call' = [call EXCEPT
                                      ![t] = Request(transactions, user_id)]
                       /\ pc' = [pc EXCEPT ![t] = "called"]
                       /\ UNCHANGED response
    /\ prior' = [prior EXCEPT ![t] = detector]
    /\ UNCHANGED <<detector, predictions, cents>>

\* mutant: a model that is already fitted is kept (warm start)
FitPredictModelWarm(model, features) ==
    IF model.fitted THEN model ELSE Fit(features)

\* anomaly_detector.fit_predict(features): the shared model is refitted
FitPredictModel(model, features) == Fit(features)

\* analyze_transactions up to and including fit_predict; a call that does
\* not reach the detector runs to its return
Analyze(t) ==
    LET transactions == call[t].transactions
        userId       == call[t].userId
        expense_df   == ExpenseDf(TransactionsToDataframe(transactions))
    IN  /\ pc[t] = "called"
        /\ \/ /\ transactions = <<>>
              /\ response' = [response EXCEPT ![t] = EmptyInsights(userId)]
              /\ pc' = [pc EXCEPT ![t] = "done"]
              /\ UNCHANGED <<detector, predictions>>
           \/ /\ transactions # <<>>
              /\ ~ReachesDetector(expense_df)
              /\ response' = [response EXCEPT
                                 ![t] = BuildInsights(transactions, userId, <<>>)]
              /\ pc' = [pc EXCEPT ![t] = "done"]
              /\ UNCHANGED <<detector, predictions>>
           \/ /\ transactions # <<>>
              /\ ReachesDetector(expense_df)
              /\ detector' = FitPredictModel(detector, Features(expense_df))
              /\ predictions' = [predictions EXCEPT
                                    ![t] = Predict(detector', Features(expense_df))]
              /\ pc' = [pc EXCEPT ![t] = "fitted"]
              /\ UNCHANGED response
        /\ UNCHANGED <<call, prior, fetched, cents>>

\* analyze_transactions from score_samples to its return, or to the
\* exception the loop over the flagged rows raises
Score(t) ==
    LET transactions == call[t].transactions
        expense_df   == ExpenseDf(TransactionsToDataframe(transactions))
        scores       == ScoreSamples(detector, Features(expense_df))
        anomalies    == BuildAnomalies(expense_df,
                                       DetectorTransactions(transactions),
                                       predictions[t], scores)
    IN  /\ pc[t] = "fitted"
        /\ IF AnomalyIndexRaises(DetectorTransactions(transactions),
                                 predictions[t])
           THEN /\ pc' = [pc EXCEPT ![t] = "raised"]
                /\ UNCHANGED response
           ELSE /\ response' = [response EXCEPT
                                   ![t] = BuildInsights(transactions,
                                                        call[t].userId,
                                                        anomalies)]
                /\ pc' = [pc EXCEPT ![t] = "done"]
        /\ predictions' = [predictions EXCEPT ![t] = <<>>]
        /\ UNCHANGED <<detector, call, prior, fetched, cents>>

\* the handler returns the response to its client, or answers an exception
\* of the engine with the status 500
Return(t) ==
    /\ pc[t] \in {"done", "raised", "answered"}
    /\ pc' = [pc EXCEPT ![t] = "idle"]
    /\ call' = [call EXCEPT ![t] = NoCall]
    /\ response' = [response EXCEPT ![t] = NoResponse]
    /\ prior' = [prior EXCEPT ![t] = Unfitted]
    /\ fetched' = [fetched EXCEPT ![t] = <<>>]
    /\ UNCHANGED <<detector, predictions, cents>>

\* the handlers are coroutines that never await during the call: the event
\* loop runs one of them at a time from entry to return
LoopFree(t) == \A u \in Threads \ {t} : pc[u] = "idle"

Next ==
    \E t \in Threads :
        \/ LoopFree(t) /\ Receive(t, Requests)
        \/ LoopFree(t) /\ GetUserInsights(t, StoredLists, "u1")
        \/ Analyze(t)
        \/ Score(t)
        \/ Return(t)

Spec == Init /\ [][Next]_vars

\* the event loop serving requests of frequent purchases
NextFrequent ==
    \E t \in Threads :
        \/ LoopFree(t) /\ Receive(t, FrequentRequests)
        \/ Analyze(t)
        \/ Score(t)
        \/ Return(t)

SpecFrequent == Init /\ [][NextFrequent]_vars

\* the service called from several threads at once, nothing serializing
\* the calls
NextThreads ==
    \E t \in Threads :
        \/ Receive(t, ThreadRequests)
        \/ Analyze(t)
        \/ Score(t)
        \/ Return(t)

SpecThreads == Init /\ [][NextThreads]_vars

(***************************************************************************)
(* The two guideline comparisons on the floats of the program, for a       *)
(* request of two expense rows with amounts in cents.  Each step is one    *)
(* statement of the engine for the category of the first row.              *)
(***************************************************************************)
InitCents ==
    /\ detector = Unfitted
    /\ pc = [t \in Threads |-> "idle"]
    /\ call = [t \in Threads |-> NoCall]
    /\ predictions = [t \in Threads |-> <<>>]
    /\ response = [t \in Threads |-> NoResponse]
    /\ prior = [t \in Threads |-> Unfitted]
    /\ fetched = [t \in Threads |-> <<>>]
    /\ \E category \in CentCategories, pair \in CentPairs :
           cents = CentsRequest(category, pair)

\* total = df['amount'].sum()
SumCents ==
    /\ cents.stage = "rows"
    /\ cents' = [cents EXCEPT
                    !.stage = "summed",
                    !.total = SumAmounts(cents.cat_total, cents.other_total)]
    /\ UNCHANGED <<detector, pc, call, predictions, response, prior, fetched>>

\* percentage=float((cat_total / total) * 100)
PercentageOfCents ==
    /\ cents.stage = "summed"
    /\ cents' = [cents EXCEPT
                    !.stage = "pattern",
                    !.percentage = FloatPercentage(cents.cat_total, cents.total)]
    /\ UNCHANGED <<detector, pc, call, predictions, response, prior, fetched>>

\* recommended = total_spending * guideline_pct
RecommendCents ==
    /\ cents.stage = "pattern"
    /\ cents' = [cents EXCEPT
                    !.stage = "recommended",
                    !.recommended =
                        FloatRecommended(cents.total,
                                         BudgetGuidelines(cents.category))]
    /\ UNCHANGED <<detector, pc, call, predictions, response, prior, fetched>>

\* the priority of the category's BudgetRecommendation
PrioritizeCents ==
    /\ cents.stage = "recommended"
    /\ cents' = [cents EXCEPT
                    !.stage = "prioritized",
                    !.priority = FloatBudgetPriority(cents.cat_total,
                                                     cents.recommended)]
    /\ UNCHANGED <<detector, pc, call, predictions, response, prior, fetched>>

\* the status of the category's CategoryHealth
AssessCents ==
    /\ cents.stage = "prioritized"
    /\ cents' = [cents EXCEPT
                    !.stage = "assessed",
                    !.status = FloatHealthStatus(cents.percentage,
                                                 RecommendedPct(cents.category))]
    /\ UNCHANGED <<detector, pc, call, predictions, response, prior, fetched>>

NextCents ==
    \/ SumCents
    \/ PercentageOfCents
    \/ RecommendCents
    \/ PrioritizeCents
    \/ AssessCents

SpecCents == InitCents /\ [][NextCents]_vars

(***************************************************************************)
(* Properties.  A task at "done" holds the request it was given and the    *)
(* response analyze_transactions returned for it.  The properties state    *)
(* what that response must be from the request alone; the engine's         *)
(* operators above are used only where a property is about the outlier     *)
(* model or compares the call with one served by a fresh instance.         *)
(***************************************************************************)
Done(t) == pc[t] = "done"
Given(t) == call[t].transactions
Out(t) == response[t]


\* sum of the amounts of a list of transactions
Total(txs) == SumSeq([i \in 1..Len(txs) |-> txs[i].amount])

TypedExpense(x) == x.type = "EXPENSE"
TypedIncome(x) == x.type = "INCOME"
Untyped(x) == x.type = NoType
\* the expense subset as the specification defines it: an absent type
\* counts as EXPENSE
ExpenseByDefault(x) == x.type \in {"EXPENSE", NoType}

CategoriesOf(rows) == {rows[i].category : i \in 1..Len(rows)}

\* the guideline share of a category, in percent of total expense
GuidelinePct ==
    [c \in TransactionCategory |->
        CASE c = "food" -> 15 [] c = "utilities" -> 10 [] c = "transport" -> 10
          [] c = "healthcare" -> 5 [] c = "entertainment" -> 5
          [] c = "shopping" -> 10 [] c = "other" -> 5]

\* a / b + c / d
AddFrac(x, y) ==
    IF x.den = y.den THEN Frac(x.num + y.num, x.den)
    ELSE Frac(x.num * y.den + y.num * x.den, x.den * y.den)
RECURSIVE SumFracs(_)
SumFracs(s) == IF s = <<>> THEN Frac(0, 1) ELSE AddFrac(Head(s), SumFracs(Tail(s)))

\* C1: a transaction with no type is treated as EXPENSE: for every
\* non-empty request, totalSpending counts the amount of every untyped
\* transaction and spendingPatterns has a pattern for its category.
UntypedTreatedAsExpense ==
    \A t \in Threads :
        (Done(t) /\ Given(t) # <<>>) =>
            /\ Out(t).totalSpending = Total(SelectSeq(Given(t), ExpenseByDefault))
            /\ \A i \in 1..Len(Given(t)) :
                   Untyped(Given(t)[i]) =>
                       Given(t)[i].category \in CategoriesOf(Out(t).spendingPatterns)

OwnFlagged(exp) ==
    IF Len(exp) < AnomalyMinSamples THEN <<>>
    ELSE LET f == Amounts(exp)
         IN  SelectSeq([i \in 1..Len(exp) |-> i],
                       LAMBDA i : Predict(Fit(f), f)[i] = -1)

\* C3: every anomaly describes the flagged expense transaction: amount,
\* category, date and (when it has one) id are those of the flagged member
\* of the expense subset, in the original order of the flagged transactions.
AnomaliesDescribeFlagged ==
    \A t \in Threads :
        (Done(t) /\ Given(t) # <<>>) =>
            LET exp     == SelectSeq(Given(t), TypedExpense)
                flagged == OwnFlagged(exp)
                anoms   == Out(t).anomalies
            IN  /\ Len(anoms) = Len(flagged)
                /\ \A k \in 1..Len(anoms) :
                       LET x == exp[flagged[k]]
                       IN  /\ anoms[k].amount = x.amount
                           /\ anoms[k].category = x.category
                           /\ anoms[k].date = x.date
                           /\ x.id # NoId => anoms[k].transactionId = <<"id", x.id>>

\* the anomaly scores a model fitted on the call's own expense amounts
\* gives to the transactions it flags
OwnScores(exp) ==
    LET f == Amounts(exp)
        flagged == OwnFlagged(exp)
    IN  [k \in 1..Len(flagged) |-> Abs(ScoreSamples(Fit(f), f)[flagged[k]])]

\* C4: under any interleaving of calls in flight, the flags and scores a
\* call emits come from the model fitted on that call's own expense amounts.
ScoresFromOwnFit ==
    \A t \in Threads :
        (Done(t) /\ Given(t) # <<>>) =>
            LET exp   == SelectSeq(Given(t), TypedExpense)
                anoms == Out(t).anomalies
            IN  /\ Len(anoms) = Len(OwnFlagged(exp))
                /\ \A k \in 1..Len(anoms) :
                       anoms[k].anomalyScore = OwnScores(exp)[k]

\* what a call returns on a service instance that has served no other call
ServedAlone(r) ==
    LET transactions == r.transactions
        expense_df   == ExpenseDf(TransactionsToDataframe(transactions))
        f            == Features(expense_df)
        model        == FitPredictModel(Unfitted, f)
    IN  IF transactions = <<>> THEN EmptyInsights(r.userId)
        ELSE IF ~ReachesDetector(expense_df)
             THEN BuildInsights(transactions, r.userId, <<>>)
        ELSE BuildInsights(transactions, r.userId,
                           BuildAnomalies(expense_df,
                                          DetectorTransactions(transactions),
                                          Predict(model, f),
                                          ScoreSamples(model, f)))

\* C5: the response of a call is a function of the call's input only: it is
\* the response the same request gets from an instance that served nothing
\* before, whatever the shared instance analyzed earlier.
ResponseOfInputOnly ==
    \A t \in Threads : Done(t) => Out(t) = ServedAlone(call[t])

\* C5 witness: a call that found the shared model fitted on another sample
\* has returned anomalies
ResponseOfInputOnlyWitness ==
    \E t \in Threads :
        /\ Done(t)
        /\ prior[t].fitted
        /\ prior[t].sample # Amounts(SelectSeq(Given(t), TypedExpense))
        /\ Out(t).anomalies # <<>>

\* C6: an empty transaction list gets the canonical empty response.
EmptyInputCanonical ==
    \A t \in Threads :
        (Done(t) /\ Given(t) = <<>>) =>
            /\ Out(t).userId = call[t].userId
            /\ Out(t).incomeVsExpense.totalIncome = 0
            /\ Out(t).incomeVsExpense.totalExpense = 0
            /\ Out(t).incomeVsExpense.netBalance = 0
            /\ Out(t).incomeVsExpense.savingsRate.num = 0
            /\ Out(t).incomeVsExpense.status = "healthy"
            /\ Out(t).spendingPatterns = <<>>
            /\ Out(t).categoryHealth = <<>>
            /\ Out(t).budgetRecommendations = <<>>
            /\ Out(t).anomalies = <<>>
            /\ Out(t).totalSpending = 0
            /\ Out(t).averageDailySpending.num = 0
            /\ Out(t).projectedMonthlySpending.num = 0
            /\ Len(Out(t).savingsOpportunities) = 1

\* C6 witness: an empty request of user u2 has been answered
EmptyInputCanonicalWitness ==
    \E t \in Threads :
        Done(t) /\ Given(t) = <<>> /\ call[t].userId = "u2"

TierRank(status) == IF status = "bad" THEN 1 ELSE IF status = "warning" THEN 2 ELSE 3
\* position of the pattern of a category in a list of patterns
PatternPos(pats, category) ==
    CHOOSE i \in 1..Len(pats) : pats[i].category = category

\* C9: categoryHealth lists the bad entries, then the warning entries, then
\* the good entries, and within a tier keeps the order of spendingPatterns.
HealthOrderedByTier ==
    \A t \in Threads :
        Done(t) =>
            LET health == Out(t).categoryHealth
                pats   == Out(t).spendingPatterns
            IN  \A i, j \in 1..Len(health) :
                    i < j =>
                        /\ TierRank(health[i].status) <= TierRank(health[j].status)
                        /\ health[i].status = health[j].status =>
                               PatternPos(pats, health[i].category)
                                   < PatternPos(pats, health[j].category)

\* C9 witness: a response with the three tiers whose pattern order is not
\* the tier order
HealthOrderedByTierWitness ==
    \E t \in Threads :
        /\ Done(t)
        /\ Len(Out(t).categoryHealth) = 3
        /\ {Out(t).categoryHealth[i].status : i \in 1..3} = {"bad", "warning", "good"}
        /\ \E i \in 1..3 :
               Out(t).categoryHealth[i].category # Out(t).spendingPatterns[i].category

\* C10: exactly one CategoryHealth entry per spending pattern, with the
\* pattern's totalAmount as spending and the tier good iff percentage <=
\* guideline, warning iff guideline < percentage <= 1.5 x guideline, bad iff
\* percentage > 1.5 x guideline.
HealthTiersCorrect ==
    \A t \in Threads :
        Done(t) =>
            LET health == Out(t).categoryHealth
                pats   == Out(t).spendingPatterns
                total  == Total(SelectSeq(Given(t), TypedExpense))
            IN  /\ Len(health) = Len(pats)
                /\ \A i \in 1..Len(pats) :
                       /\ Cardinality({k \in 1..Len(health) :
                              health[k].category = pats[i].category}) = 1
                       /\ \A k \in 1..Len(health) :
                              health[k].category = pats[i].category =>
                                  LET share == pats[i].totalAmount * 100
                                      g     == GuidelinePct[pats[i].category]
                                  IN  /\ health[k].spending = pats[i].totalAmount
                                      /\ health[k].status \in {"good", "warning", "bad"}
                                      /\ health[k].status = "good" <=>
                                             share <= g * total
                                      /\ health[k].status = "warning" <=>
                                             (share > g * total
                                              /\ 2 * share <= 3 * g * total)
                                      /\ health[k].status = "bad" <=>
                                             2 * share > 3 * g * total

\* C10 witness: a response with a warning entry and a good entry
HealthTiersCorrectWitness ==
    \E t \in Threads :
        /\ Done(t)
        /\ \E i, j \in 1..Len(Out(t).categoryHealth) :
               /\ Out(t).categoryHealth[i].status = "warning"
               /\ Out(t).categoryHealth[j].status = "good"


(***************************************************************************)
(* Savings opportunities.                                                  *)
(***************************************************************************)
\* a budget recommendation that is a high-priority overspend
Overspend(r) ==
    /\ r.priority = "high"
    /\ r.currentSpending * r.recommendedAmount.den > r.recommendedAmount.num

\* a spending pattern of many small purchases
Qualifying(p) ==
    /\ p.transactionCount > FrequentCount
    /\ p.averageAmount.num < SmallAverage * p.averageAmount.den

Fallback(t) == IF Given(t) = <<>> THEN StartTracking ELSE WellBalanced

\* C11: savingsOpportunities has between 1 and 5 entries, and it is exactly
\* the single fallback entry if and only if no budget recommendation is a
\* high-priority overspend and no spending pattern has transactionCount > 20
\* with averageAmount < 10; the fallback of a non-empty request is the
\* well-balanced message.
SavingsListBounded ==
    \A t \in Threads :
        Done(t) =>
            LET opp  == Out(t).savingsOpportunities
                recs == Out(t).budgetRecommendations
                pats == Out(t).spendingPatterns
                none == /\ \A i \in 1..Len(recs) : ~Overspend(recs[i])
                        /\ \A i \in 1..Len(pats) : ~Qualifying(pats[i])
            IN  /\ Len(opp) >= 1
                /\ Len(opp) <= MaxOpportunities
                /\ (opp = <<Fallback(t)>>) <=> none
                /\ none \/ \A i \in 1..Len(opp) :
                               opp[i].kind \in {"Reduce", "Consolidate"}

\* C11 witness: a response whose list is full and holds a Consolidate entry
SavingsListBoundedWitness ==
    \E t \in Threads :
        /\ Done(t)
        /\ Len(Out(t).savingsOpportunities) = MaxOpportunities
        /\ \E i \in 1..MaxOpportunities :
               Out(t).savingsOpportunities[i].kind = "Consolidate"
        /\ Cardinality({ i \in 1..Len(Out(t).spendingPatterns) :
                            Qualifying(Out(t).spendingPatterns[i]) }) >= 3

\* C11 witness of the other side: the well-balanced fallback
SavingsFallbackReached ==
    \E t \in Threads :
        /\ Done(t)
        /\ Given(t) # <<>>
        /\ Out(t).savingsOpportunities = <<WellBalanced>>

\* the (kind, category) of the entries of a savings list
Headings(opp) == [i \in 1..Len(opp) |-> <<opp[i].kind, opp[i].category>>]

\* C12: the savings list is generated in order: first at most 3 Reduce
\* entries, one for each of the first 3 high-priority recommendations (in
\* budgetRecommendations order) whose current spend exceeds its recommended
\* amount, then one Consolidate entry per qualifying pattern in
\* spendingPatterns order; the cut to 5 removes entries from the end only,
\* so every Reduce entry precedes every Consolidate entry and no Reduce
\* entry is dropped.
SavingsListOrdered ==
    \A t \in Threads :
        Done(t) =>
            LET opp    == Out(t).savingsOpportunities
                over   == SelectSeq(Out(t).budgetRecommendations, Overspend)
                first  == SubSeq(over, 1, Min(3, Len(over)))
                qual   == SelectSeq(Out(t).spendingPatterns, Qualifying)
                wanted == [i \in 1..Len(first) |-> <<"Reduce", first[i].category>>]
                          \o [i \in 1..Len(qual) |->
                                 <<"Consolidate", qual[i].category>>]
                reduce == { i \in 1..Len(opp) : opp[i].kind = "Reduce" }
            IN  wanted # <<>> =>
                    /\ Headings(opp) = SubSeq(wanted, 1, Min(5, Len(wanted)))
                    /\ Cardinality(reduce) = Len(first)
                    /\ Cardinality(reduce) <= 3
                    /\ \A i, j \in 1..Len(opp) :
                           opp[i].kind = "Reduce" /\ opp[j].kind = "Consolidate"
                               => i < j

\* C12 witness: four high-priority overspends and three qualifying patterns:
\* the fourth overspend gets no Reduce entry and the cut drops a Consolidate
SavingsListOrderedWitness ==
    \E t \in Threads :
        /\ Done(t)
        /\ Len(SelectSeq(Out(t).budgetRecommendations, Overspend)) > 3
        /\ Len(SelectSeq(Out(t).spendingPatterns, Qualifying)) >= 3
        /\ Headings(Out(t).savingsOpportunities)
               = << <<"Reduce", "shopping">>, <<"Reduce", "entertainment">>,
                    <<"Reduce", "healthcare">>,
                    <<"Consolidate", "entertainment">>,
                    <<"Consolidate", "healthcare">> >>

(***************************************************************************)
(* Daily average and monthly projection.                                   *)
(***************************************************************************)
\* hours between the earliest and the latest date of a list
HoursSpanned(txs) ==
    LET dates == { txs[i].date : i \in 1..Len(txs) }
    IN  CHOOSE h \in 0..1000 :
            \E a, b \in dates : /\ h = b - a
                                /\ \A d \in dates : a <= d /\ d <= b

\* whole days in a number of hours
WholeDays(h) == CHOOSE d \in 0..h : 24 * d <= h /\ h < 24 * (d + 1)

\* C13: for a non-empty request, averageDailySpending is totalSpending over
\* max(D, 1), D the whole number of days between the earliest and the latest
\* date of the full request (INCOME and EXPENSE together), and
\* projectedMonthlySpending is averageDailySpending x 30; when all
\* transactions fall within one day, averageDailySpending is totalSpending.
DailyAverageOverFullRange ==
    \A t \in Threads :
        Done(t) /\ Given(t) # <<>> =>
            LET D    == WholeDays(HoursSpanned(Given(t)))
                avg  == Out(t).averageDailySpending
                proj == Out(t).projectedMonthlySpending
            IN  /\ avg.den > 0 /\ proj.den > 0
                /\ avg.num * (IF D > 1 THEN D ELSE 1)
                       = Out(t).totalSpending * avg.den
                /\ proj.num * avg.den = 30 * avg.num * proj.den
                /\ D = 0 => avg.num = Out(t).totalSpending * avg.den

\* C13 witness: expenses within one day and an INCOME transaction days later
DailyAverageOverFullRangeWitness ==
    \E t \in Threads :
        /\ Done(t)
        /\ Given(t) # <<>>
        /\ Out(t).totalSpending > 0
        /\ WholeDays(HoursSpanned(SelectSeq(Given(t), TypedExpense))) = 0
        /\ WholeDays(HoursSpanned(Given(t))) > 1

(***************************************************************************)
(* The threshold of the outlier detection.                                 *)
(***************************************************************************)
\* C14: whenever the expense subset has fewer than 10 transactions, the
\* anomalies list is empty, whatever the amounts and however many INCOME
\* transactions the request holds, and the detector is neither fitted nor
\* scored: the call never stands between fit and score, holds no
\* predictions, and leaves the shared model as it found it.
FewExpensesSkipDetector ==
    \A t \in Threads :
        /\ pc[t] # "idle"
        /\ Len(SelectSeq(Given(t), TypedExpense)) < 10
        => /\ pc[t] # "fitted"
           /\ predictions[t] = <<>>
           /\ detector = prior[t]
           /\ Done(t) => Out(t).anomalies = <<>>

\* C14 witness: a returned response to ten transactions or more, nine of
\* them expenses with one far larger than the others, served by a service
\* whose model an earlier call has fitted
FewExpensesSkipDetectorWitness ==
    \E t \in Threads :
        /\ Done(t)
        /\ Len(Given(t)) >= 10
        /\ Len(SelectSeq(Given(t), TypedExpense)) = 9
        /\ \E i \in 1..Len(Given(t)) :
               TypedExpense(Given(t)[i]) /\ Given(t)[i].amount = 30
        /\ detector.fitted

(***************************************************************************)
(* The order of spendingPatterns.                                          *)
(***************************************************************************)
\* the position at which a category is first seen in a list of rows
FirstSeen(rows, category) ==
    CHOOSE k \in 1..Len(rows) :
        /\ rows[k].category = category
        /\ \A m \in 1..(k - 1) : rows[m].category # category

\* C15: spendingPatterns is sorted by totalAmount in descending order, and
\* categories of equal totals appear in the order in which they were first
\* seen in the expense subset.
PatternsSortedByTotal ==
    \A t \in Threads :
        Done(t) =>
            LET exp  == SelectSeq(Given(t), TypedExpense)
                pats == Out(t).spendingPatterns
            IN  \A i, j \in 1..Len(pats) :
                    i < j =>
                        /\ pats[i].totalAmount >= pats[j].totalAmount
                        /\ pats[i].totalAmount = pats[j].totalAmount
                               => FirstSeen(exp, pats[i].category)
                                      < FirstSeen(exp, pats[j].category)

\* C15 witness: two patterns of equal totals out of three expenses, the
\* category seen first, "other", listed before "food"
PatternsSortedByTotalWitness ==
    \E t \in Threads :
        /\ Done(t)
        /\ Len(Out(t).spendingPatterns) = 2
        /\ Len(SelectSeq(Given(t), TypedExpense)) = 3
        /\ Out(t).spendingPatterns[1].totalAmount
               = Out(t).spendingPatterns[2].totalAmount
        /\ Out(t).spendingPatterns[1].category = "other"

Spellings ==
    [c \in TransactionCategory |->
        CASE c = "food" -> {"food", "Food", "FOOD"}
          [] c = "transport" -> {"transport", "Transport"}
          [] c = "other" -> {"other", "OTHER"}
          [] OTHER -> {c}]

\* the category the engine is to see for a stored spelling
EngineCategory(stored) ==
    IF \E c \in TransactionCategory : stored \in Spellings[c]
    THEN CHOOSE c \in TransactionCategory : stored \in Spellings[c]
    ELSE "other"

ComparisonsAgree ==
    cents.stage = "assessed" =>
        /\ cents.status = "bad" <=> cents.priority = "high"
        /\ cents.priority = "medium" => cents.status = "warning"
        /\ cents.status = "good" => cents.priority = "low"

=============================================================================
